---- MODULE Spec2Model ----
(***************************************************************************)
(* Surprise-bag marketplace backend (services.py, main.py, models.py,      *)
(* schemas.py).  Every HTTP request runs in its own database session; a    *)
(* request is modelled as a process that executes the SQL statements of    *)
(* its service function one at a time: a SELECT reads the committed store, *)
(* db.commit() writes the values the session computed from what it read.   *)
(* Requests of different sessions interleave between statements.           *)
(***************************************************************************)
EXTENDS Integers, Sequences, FiniteSets, TLC

VARIABLES users, business_owners, bags, orders, notifications, next_nid,
          req, nreq

\* the users and business_owners tables
accounts == <<users, business_owners>>

vars == <<users, business_owners, bags, orders, notifications, next_nid,
          req, nreq>>

(* ----------------------------- bounds ---------------------------------- *)
MaxRequests == 4      \* requests accepted in one behaviour
MaxBags == 1          \* listings created in one behaviour
MaxOrders == 2        \* order ids a request may name
MaxQty == 1           \* largest quantity_available a payload carries
MaxPrice == 2         \* prices range over 1..MaxPrice
MaxTime == 2          \* pickup times range over 1..MaxTime
NumCodes == 2         \* size of the pickup-code space
MaxRetries == 2       \* the retry counter of the code loop saturates here
MaxUsers == 5         \* rows of the users table
MaxNotifications == 3 \* notification ids a request may name

Procs == {"s1", "s2"}             \* concurrent sessions
Prices == 1..MaxPrice
Times == 1..MaxTime
Codes == 1..NumCodes

(* ------------------------- accounts (users table) ---------------------- *)
Customers == {1, 2}
BusinessUsers == {3, 4}
Users == Customers \cup BusinessUsers

UserRole == {"customer", "business_owner"}

User(email, user_role) ==
    [email |-> email, role |-> user_role, is_active |-> TRUE]

role(u) == users[u].role

\* business_owners rows: user 3 has a business profile, user 4 has none
BusinessProfiles == {3}

BusinessOwner(owner_id) == [owner_id |-> owner_id, is_verified |-> FALSE]

(* ------------------------------ enums ---------------------------------- *)
OrderStatus == {"pending", "confirmed", "cancelled", "completed"}

(* ----------------------------- payloads -------------------------------- *)
\* SurpriseBagCreate: original_price > 0, discount_price > 0,
\* quantity_available >= 0
SurpriseBagCreate ==
    [original_price : Prices, discount_price : Prices,
     quantity_available : 0..MaxQty,
     pickup_start : Times, pickup_end : Times]

\* the payloads requests carry: the price and the schedule vary on one side
Payloads ==
    {bag \in SurpriseBagCreate :
        bag.original_price = MaxPrice /\ bag.pickup_start = 1}

NoPayload ==
    [original_price |-> 0, discount_price |-> 0, quantity_available |-> 0,
     pickup_start |-> 0, pickup_end |-> 0]

(* ------------------------------ rows ----------------------------------- *)
SurpriseBag(business_id, bag) ==
    [business_id |-> business_id,
     original_price |-> bag.original_price,
     discount_price |-> bag.discount_price,
     quantity_available |-> bag.quantity_available,
     quantity_sold |-> 0,
     pickup_start |-> bag.pickup_start,
     pickup_end |-> bag.pickup_end,
     is_active |-> TRUE]

Order(order_id, customer_id, bag_id, total_price, pickup_code) ==
    [order_id |-> order_id, customer_id |-> customer_id, bag_id |-> bag_id,
     total_price |-> total_price, pickup_code |-> pickup_code,
     status |-> "pending"]

Notification(notification_id, user_id, type, related_entity_type, related_entity_id) ==
    [notification_id |-> notification_id, user_id |-> user_id, type |-> type,
     related_entity_type |-> related_entity_type,
     related_entity_id |-> related_entity_id, is_read |-> FALSE]

(* ---------------------------- sessions --------------------------------- *)
Idle ==
    [op |-> "none", pc |-> "idle", caller |-> 0, bag_id |-> 0, order_id |-> 0,
     status |-> "none", bag |-> NoPayload, total_price |-> 0,
     loaded |-> NoPayload, loaded_status |-> "none",
     quantity_sold |-> 0, pickup_code |-> 0, retries |-> 0, result |-> "none",
     notification_id |-> 0, is_read |-> FALSE, email |-> 0, role |-> "none"]

\* a session accepts a new request when it is not inside one
Free(p) == req[p].pc = "idle" /\ nreq < MaxRequests

Begin(op, caller) == [Idle EXCEPT !.op = op, !.caller = caller]

\* the request ends: HTTPException (or the returned value) goes to the caller;
\* the session's loaded objects are dropped
Finish(r, result) ==
    [Idle EXCEPT !.op = r.op, !.caller = r.caller, !.bag_id = r.bag_id,
                 !.order_id = r.order_id, !.notification_id = r.notification_id,
                 !.pc = "done", !.result = result]

(* --------------------------- queries ----------------------------------- *)
get_user_by_id(user_id) == IF user_id \in DOMAIN users THEN user_id ELSE 0

get_business_owner(user_id) ==
    {b \in business_owners : b.owner_id = user_id}

get_surprise_bag(bag_id) == IF bag_id \in DOMAIN bags THEN bag_id ELSE 0

OwnedBag(bag_id, business_id) ==
    IF bag_id \in DOMAIN bags /\ bags[bag_id].business_id = business_id
    THEN bag_id ELSE 0

\* mutant: the query forgets the customer_id filter
OwnedOrder_any_customer(order_id, customer_id) ==
    IF order_id \in DOMAIN orders THEN order_id ELSE 0

OwnedOrder(order_id, customer_id) ==
    IF order_id \in DOMAIN orders /\ orders[order_id].customer_id = customer_id
    THEN order_id ELSE 0

Init ==
    /\ users = [u \in Users |->
                   User(u, IF u \in Customers THEN "customer"
                           ELSE "business_owner")]
    /\ business_owners = {BusinessOwner(u) : u \in BusinessProfiles}
    /\ bags = <<>>
    /\ orders = <<>>
    /\ notifications = {}
    /\ next_nid = 1
    /\ req = [p \in Procs |-> Idle]
    /\ nreq = 0

(* ------------------------ surprise bag services ------------------------ *)
\* mutant: an equal discount price passes
ValidPrices_or_equal(bag) == bag.discount_price <= bag.original_price

ValidPrices(bag) == bag.discount_price < bag.original_price

ValidPickup(bag) == bag.pickup_start < bag.pickup_end

\* the columns a SurpriseBagCreate payload carries, as loaded from a row
Loaded(row) ==
    [original_price |-> row.original_price,
     discount_price |-> row.discount_price,
     quantity_available |-> row.quantity_available,
     pickup_start |-> row.pickup_start, pickup_end |-> row.pickup_end]

\* mutant: the loop stops after the first customer
NewBagNotifications_first_only(customers, bag_id) ==
    {Notification(next_nid, c, "new_bag", "bag", bag_id) :
        c \in {d \in customers : \A e \in customers : d <= e}}

\* one notification per customer row, ids in customer order
NewBagNotifications(customers, bag_id) ==
    {Notification(next_nid + Cardinality({d \in customers : d < c}),
                  c, "new_bag", "bag", bag_id) : c \in customers}

\* listings created or being created
Listings == Len(bags) + Cardinality({q \in Procs :
                req[q].pc = "create_surprise_bag_commit"})

create_surprise_bag(p, caller, bag) ==
    /\ Free(p)
    /\ Listings < MaxBags
    /\ nreq' = nreq + 1
    /\ LET r == [Begin("create_surprise_bag", caller) EXCEPT !.bag = bag]
       IN  req' = [req EXCEPT ![p] =
               IF role(caller) # "business_owner" THEN Finish(r, "403")
               ELSE IF get_business_owner(caller) = {} THEN Finish(r, "404")
               ELSE IF ~ValidPrices(bag) THEN Finish(r, "400_validation")
               ELSE IF ~ValidPickup(bag) THEN Finish(r, "400_validation")
               ELSE [r EXCEPT !.pc = "create_surprise_bag_commit"]]
    /\ UNCHANGED <<bags, orders, notifications, next_nid, accounts>>

create_surprise_bag_commit(p) ==
    /\ req[p].pc = "create_surprise_bag_commit"
    /\ bags' = Append(bags, SurpriseBag(req[p].caller, req[p].bag))
    /\ req' = [req EXCEPT ![p].pc = "create_surprise_bag_notify",
                          ![p].bag_id = Len(bags) + 1]
    /\ UNCHANGED <<orders, notifications, next_nid, nreq, accounts>>

create_surprise_bag_notify(p) ==
    /\ req[p].pc = "create_surprise_bag_notify"
    /\ LET customers == {u \in DOMAIN users : role(u) = "customer"}
       IN  /\ notifications' = notifications \cup
                  NewBagNotifications(customers, req[p].bag_id)
           /\ next_nid' = next_nid + Cardinality(customers)
    /\ req' = [req EXCEPT ![p] = Finish(req[p], "ok")]
    /\ UNCHANGED <<bags, orders, nreq, accounts>>

update_surprise_bag(p, caller, bag_id, bag_update) ==
    /\ Free(p)
    /\ nreq' = nreq + 1
    /\ LET r == [Begin("update_surprise_bag", caller) EXCEPT
                    !.bag_id = bag_id, !.bag = bag_update]
           db_bag == OwnedBag(bag_id, caller)
       IN  req' = [req EXCEPT ![p] =
               IF role(caller) # "business_owner" THEN Finish(r, "403")
               ELSE IF db_bag = 0 THEN Finish(r, "404")
               ELSE [r EXCEPT !.pc = "update_surprise_bag_commit",
                              !.loaded = Loaded(bags[db_bag])]]
    /\ UNCHANGED <<bags, orders, notifications, next_nid, accounts>>

\* mutant: the payload also resets quantity_sold
Flush_resets_sold(row, loaded, bag) ==
    [row EXCEPT
       !.original_price = bag.original_price,
       !.discount_price = bag.discount_price,
       !.quantity_available = bag.quantity_available,
       !.quantity_sold = 0,
       !.pickup_start = bag.pickup_start,
       !.pickup_end = bag.pickup_end]

\* the flush writes the columns whose new value differs from the loaded one
Flush(row, loaded, bag) ==
    [row EXCEPT
       !.original_price = IF bag.original_price # loaded.original_price
                          THEN bag.original_price ELSE @,
       !.discount_price = IF bag.discount_price # loaded.discount_price
                          THEN bag.discount_price ELSE @,
       !.quantity_available =
           IF bag.quantity_available # loaded.quantity_available
           THEN bag.quantity_available ELSE @,
       !.pickup_start = IF bag.pickup_start # loaded.pickup_start
                        THEN bag.pickup_start ELSE @,
       !.pickup_end = IF bag.pickup_end # loaded.pickup_end
                      THEN bag.pickup_end ELSE @]

update_surprise_bag_commit(p) ==
    /\ req[p].pc = "update_surprise_bag_commit"
    /\ bags' = [bags EXCEPT ![req[p].bag_id] =
                   Flush(@, req[p].loaded, req[p].bag)]
    /\ req' = [req EXCEPT ![p] = Finish(req[p], "ok")]
    /\ UNCHANGED <<orders, notifications, next_nid, nreq, accounts>>

\* mutant: the count forgets the confirmed orders
ActiveOrders_pending_only(bag_id) ==
    Cardinality({i \in DOMAIN orders :
                    /\ orders[i].bag_id = bag_id
                    /\ orders[i].status \in {"pending"}})

\* pending or confirmed orders of a bag
ActiveOrders(bag_id) ==
    Cardinality({i \in DOMAIN orders :
                    /\ orders[i].bag_id = bag_id
                    /\ orders[i].status \in {"pending", "confirmed"}})

delete_surprise_bag(p, caller, bag_id) ==
    /\ Free(p)
    /\ nreq' = nreq + 1
    /\ LET r == [Begin("delete_surprise_bag", caller) EXCEPT !.bag_id = bag_id]
           db_bag == OwnedBag(bag_id, caller)
       IN  req' = [req EXCEPT ![p] =
               IF role(caller) # "business_owner" THEN Finish(r, "403")
               ELSE IF db_bag = 0 THEN Finish(r, "404")
               ELSE [r EXCEPT !.pc = "delete_surprise_bag_count"]]
    /\ UNCHANGED <<bags, orders, notifications, next_nid, accounts>>

delete_surprise_bag_count(p) ==
    /\ req[p].pc = "delete_surprise_bag_count"
    /\ req' = [req EXCEPT ![p] =
           IF ActiveOrders(req[p].bag_id) > 0
           THEN Finish(req[p], "400_active_orders")
           ELSE [req[p] EXCEPT !.pc = "delete_surprise_bag_commit"]]
    /\ UNCHANGED <<bags, orders, notifications, next_nid, nreq, accounts>>

delete_surprise_bag_commit(p) ==
    /\ req[p].pc = "delete_surprise_bag_commit"
    /\ bags' = [bags EXCEPT ![req[p].bag_id].is_active = FALSE]
    /\ req' = [req EXCEPT ![p] = Finish(req[p], "ok")]
    /\ UNCHANGED <<orders, notifications, next_nid, nreq, accounts>>

(* ----------------------------- order services -------------------------- *)
\* "not db_bag or not db_bag.is_active"
\* mutant: only a missing listing is refused
Unavailable_missing_only(db_bag) == db_bag = 0

Unavailable(db_bag) == IF db_bag = 0 THEN TRUE ELSE ~bags[db_bag].is_active

\* mutant: the capacity check is off by one
SoldOut_strict(db_bag) == db_bag.quantity_available < db_bag.quantity_sold

SoldOut(db_bag) == db_bag.quantity_available <= db_bag.quantity_sold

\* the SELECT of the code loop: some order carries this pickup code
PickupCodeTaken(pickup_code) ==
    \E i \in DOMAIN orders : orders[i].pickup_code = pickup_code

\* mutant: the column has no unique index
UniquePickupCode_no_index(pickup_code) == TRUE

\* the unique index on orders.pickup_code, enforced when the row is inserted
UniquePickupCode(pickup_code) ==
    \A i \in DOMAIN orders : orders[i].pickup_code # pickup_code

Saturate(n) == IF n < MaxRetries THEN n + 1 ELSE MaxRetries

create_order(p, caller, bag_id, total_price) ==
    /\ Free(p)
    /\ nreq' = nreq + 1
    /\ LET r == [Begin("create_order", caller) EXCEPT
                    !.bag_id = bag_id, !.total_price = total_price]
           db_bag == get_surprise_bag(bag_id)
       IN  \/ /\ role(caller) # "customer"
              /\ req' = [req EXCEPT ![p] = Finish(r, "403")]
           \/ /\ role(caller) = "customer"
              /\ Unavailable(db_bag)
              /\ req' = [req EXCEPT ![p] = Finish(r, "404")]
           \/ /\ role(caller) = "customer"
              /\ ~Unavailable(db_bag)
              /\ SoldOut(bags[db_bag])
              /\ req' = [req EXCEPT ![p] = Finish(r, "400_sold_out")]
           \/ /\ role(caller) = "customer"
              /\ ~Unavailable(db_bag)
              /\ ~SoldOut(bags[db_bag])
              /\ \E pickup_code \in Codes :
                    req' = [req EXCEPT ![p] =
                        [r EXCEPT !.pc = "create_order_code",
                                  !.quantity_sold = bags[db_bag].quantity_sold,
                                  !.pickup_code = pickup_code]]
    /\ UNCHANGED <<bags, orders, notifications, next_nid, accounts>>

create_order_code(p) ==
    /\ req[p].pc = "create_order_code"
    /\ \/ /\ PickupCodeTaken(req[p].pickup_code)
          /\ \E pickup_code \in Codes :
                req' = [req EXCEPT ![p].pickup_code = pickup_code,
                                   ![p].retries = Saturate(@)]
       \/ /\ ~PickupCodeTaken(req[p].pickup_code)
          /\ req' = [req EXCEPT ![p].pc = "create_order_commit"]
    /\ UNCHANGED <<bags, orders, notifications, next_nid, nreq, accounts>>

create_order_commit(p) ==
    /\ req[p].pc = "create_order_commit"
    /\ \/ /\ ~UniquePickupCode(req[p].pickup_code)
          /\ req' = [req EXCEPT ![p] = Finish(req[p], "500_integrity")]
          /\ UNCHANGED <<bags, orders>>
       \/ /\ UniquePickupCode(req[p].pickup_code)
          /\ orders' = Append(orders,
                 Order(Len(orders) + 1, req[p].caller, req[p].bag_id,
                       req[p].total_price, req[p].pickup_code))
          /\ bags' = [bags EXCEPT ![req[p].bag_id].quantity_sold =
                         req[p].quantity_sold + 1]
          /\ req' = [req EXCEPT ![p].pc = "create_order_notify",
                                ![p].order_id = Len(orders) + 1]
    /\ UNCHANGED <<notifications, next_nid, nreq, accounts>>

create_order_notify(p) ==
    /\ req[p].pc = "create_order_notify"
    /\ notifications' = notifications \cup
           {Notification(next_nid, req[p].caller, "order_confirmation",
                         "order", req[p].order_id)}
    /\ next_nid' = next_nid + 1
    /\ req' = [req EXCEPT ![p] = Finish(req[p], "ok")]
    /\ UNCHANGED <<bags, orders, nreq, accounts>>

update_order_status(p, caller, order_id, status) ==
    /\ Free(p)
    /\ nreq' = nreq + 1
    /\ LET r == [Begin("update_order_status", caller) EXCEPT
                    !.order_id = order_id, !.status = status]
           db_order == OwnedOrder(order_id, caller)
       IN  req' = [req EXCEPT ![p] =
               IF db_order = 0 THEN Finish(r, "404")
               ELSE [r EXCEPT !.pc = "update_order_status_commit",
                              !.loaded_status = orders[db_order].status]]
    /\ UNCHANGED <<bags, orders, notifications, next_nid, accounts>>

update_order_status_commit(p) ==
    /\ req[p].pc = "update_order_status_commit"
    /\ orders' = [orders EXCEPT ![req[p].order_id].status =
                     IF req[p].status # req[p].loaded_status
                     THEN req[p].status ELSE @]
    /\ req' = [req EXCEPT ![p].pc = "update_order_status_notify"]
    /\ UNCHANGED <<bags, notifications, next_nid, nreq, accounts>>

\* mutant: the update is announced as an order_confirmation
update_order_status_notify_wrong_type(p) ==
    /\ req[p].pc = "update_order_status_notify"
    /\ notifications' = notifications \cup
           {Notification(next_nid, req[p].caller, "order_confirmation",
                         "order", req[p].order_id)}
    /\ next_nid' = next_nid + 1
    /\ req' = [req EXCEPT ![p] = Finish(req[p], "ok")]
    /\ UNCHANGED <<bags, orders, nreq, accounts>>

update_order_status_notify(p) ==
    /\ req[p].pc = "update_order_status_notify"
    /\ notifications' = notifications \cup
           {Notification(next_nid, req[p].caller, "order_update",
                         "order", req[p].order_id)}
    /\ next_nid' = next_nid + 1
    /\ req' = [req EXCEPT ![p] = Finish(req[p], "ok")]
    /\ UNCHANGED <<bags, orders, nreq, accounts>>

\* mutant: confirmed orders may be cancelled too
CanCancel_confirmed_too(db_order) ==
    db_order.status \in {"pending", "confirmed"}

CanCancel(db_order) == db_order.status = "pending"

delete_order(p, caller, order_id) ==
    /\ Free(p)
    /\ nreq' = nreq + 1
    /\ LET r == [Begin("delete_order", caller) EXCEPT !.order_id = order_id]
           db_order == OwnedOrder(order_id, caller)
       IN  req' = [req EXCEPT ![p] =
               IF role(caller) # "customer" THEN Finish(r, "403")
               ELSE IF db_order = 0 THEN Finish(r, "404")
               ELSE IF ~CanCancel(orders[db_order])
                    THEN Finish(r, "400_not_pending")
               ELSE [r EXCEPT !.pc = "delete_order_get_bag",
                              !.bag_id = orders[db_order].bag_id]]
    /\ UNCHANGED <<bags, orders, notifications, next_nid, accounts>>

delete_order_get_bag(p) ==
    /\ req[p].pc = "delete_order_get_bag"
    /\ LET db_bag == get_surprise_bag(req[p].bag_id)
       IN  req' = [req EXCEPT ![p].pc = "delete_order_commit",
                              ![p].bag_id = db_bag,
                              ![p].quantity_sold =
                                  IF db_bag # 0
                                  THEN bags[db_bag].quantity_sold ELSE 0]
    /\ UNCHANGED <<bags, orders, notifications, next_nid, nreq, accounts>>

\* mutant: the cancellation also releases the pickup code
delete_order_commit_releases_code(p) ==
    /\ req[p].pc = "delete_order_commit"
    /\ bags' = IF req[p].bag_id # 0
               THEN [bags EXCEPT ![req[p].bag_id].quantity_sold =
                        req[p].quantity_sold - 1]
               ELSE bags
    /\ orders' = [orders EXCEPT ![req[p].order_id].status = "cancelled",
                                ![req[p].order_id].pickup_code = 0]
    /\ req' = [req EXCEPT ![p].pc = "delete_order_notify"]
    /\ UNCHANGED <<notifications, next_nid, nreq, accounts>>

delete_order_commit(p) ==
    /\ req[p].pc = "delete_order_commit"
    /\ bags' = IF req[p].bag_id # 0
               THEN [bags EXCEPT ![req[p].bag_id].quantity_sold =
                        req[p].quantity_sold - 1]
               ELSE bags
    /\ orders' = [orders EXCEPT ![req[p].order_id].status = "cancelled"]
    /\ req' = [req EXCEPT ![p].pc = "delete_order_notify"]
    /\ UNCHANGED <<notifications, next_nid, nreq, accounts>>

delete_order_notify(p) ==
    /\ req[p].pc = "delete_order_notify"
    /\ notifications' = notifications \cup
           {Notification(next_nid, req[p].caller, "order_update",
                         "order", req[p].order_id)}
    /\ next_nid' = next_nid + 1
    /\ req' = [req EXCEPT ![p] = Finish(req[p], "ok")]
    /\ UNCHANGED <<bags, orders, nreq, accounts>>

(* ------------------------- notification services ----------------------- *)
\* mutant: the query forgets the user_id filter
OwnedNotification_any_user(notification_id, user_id) ==
    {n \in notifications : n.notification_id = notification_id}

OwnedNotification(notification_id, user_id) ==
    {n \in notifications :
        n.notification_id = notification_id /\ n.user_id = user_id}

mark_notification_as_read(p, caller, notification_id) ==
    /\ Free(p)
    /\ nreq' = nreq + 1
    /\ LET r == [Begin("mark_notification_as_read", caller) EXCEPT
                    !.notification_id = notification_id]
           db_notification == OwnedNotification(notification_id, caller)
       IN  req' = [req EXCEPT ![p] =
               IF db_notification = {} THEN Finish(r, "404")
               ELSE [r EXCEPT !.pc = "mark_notification_as_read_commit",
                              !.is_read =
                                  \E n \in db_notification : n.is_read]]
    /\ UNCHANGED <<bags, orders, notifications, next_nid, accounts>>

\* the UPDATE is sent when is_read changes; it fails when the row is gone
mark_notification_as_read_commit(p) ==
    /\ req[p].pc = "mark_notification_as_read_commit"
    /\ LET row == {n \in notifications :
                      n.notification_id = req[p].notification_id}
       IN  \/ /\ req[p].is_read
              /\ req' = [req EXCEPT ![p] = Finish(req[p], "ok")]
              /\ UNCHANGED notifications
           \/ /\ ~req[p].is_read
              /\ row = {}
              /\ req' = [req EXCEPT ![p] = Finish(req[p], "500_stale")]
              /\ UNCHANGED notifications
           \/ /\ ~req[p].is_read
              /\ row # {}
              /\ notifications' = (notifications \ row) \cup
                     {[n EXCEPT !.is_read = TRUE] : n \in row}
              /\ req' = [req EXCEPT ![p] = Finish(req[p], "ok")]
    /\ UNCHANGED <<bags, orders, next_nid, nreq, accounts>>

delete_notification(p, caller, notification_id) ==
    /\ Free(p)
    /\ nreq' = nreq + 1
    /\ LET r == [Begin("delete_notification", caller) EXCEPT
                    !.notification_id = notification_id]
           db_notification == OwnedNotification(notification_id, caller)
       IN  req' = [req EXCEPT ![p] =
               IF db_notification = {} THEN Finish(r, "404")
               ELSE [r EXCEPT !.pc = "delete_notification_commit"]]
    /\ UNCHANGED <<bags, orders, notifications, next_nid, accounts>>

delete_notification_commit(p) ==
    /\ req[p].pc = "delete_notification_commit"
    /\ notifications' = {n \in notifications :
                            n.notification_id # req[p].notification_id}
    /\ req' = [req EXCEPT ![p] = Finish(req[p], "ok")]
    /\ UNCHANGED <<bags, orders, next_nid, nreq, accounts>>

(* ---------------------------- account services ------------------------- *)
EmailRegistered(email) == \E u \in DOMAIN users : users[u].email = email

\* user rows created or being created
Accounts == Len(users) + Cardinality({q \in Procs :
                req[q].pc = "create_user_commit"})

create_user(p, email, user_role) ==
    /\ Free(p)
    /\ Accounts < MaxUsers
    /\ nreq' = nreq + 1
    /\ LET r == [Begin("create_user", 0) EXCEPT
                    !.email = email, !.role = user_role]
       IN  req' = [req EXCEPT ![p] =
               IF EmailRegistered(email) THEN Finish(r, "400_email")
               ELSE [r EXCEPT !.pc = "create_user_commit"]]
    /\ UNCHANGED <<bags, orders, notifications, next_nid, accounts>>

\* the unique index on users.email is enforced when the row is inserted
create_user_commit(p) ==
    /\ req[p].pc = "create_user_commit"
    /\ \/ /\ EmailRegistered(req[p].email)
          /\ req' = [req EXCEPT ![p] = Finish(req[p], "500_integrity")]
          /\ UNCHANGED users
       \/ /\ ~EmailRegistered(req[p].email)
          /\ users' = Append(users, User(req[p].email, req[p].role))
          /\ req' = [req EXCEPT ![p] = Finish(req[p], "ok")]
    /\ UNCHANGED <<business_owners, bags, orders, notifications, next_nid, nreq>>

delete_user(p, caller) ==
    /\ Free(p)
    /\ nreq' = nreq + 1
    /\ LET r == Begin("delete_user", caller)
       IN  req' = [req EXCEPT ![p] =
               IF get_user_by_id(caller) = 0 THEN Finish(r, "404")
               ELSE [r EXCEPT !.pc = "delete_user_commit"]]
    /\ UNCHANGED <<bags, orders, notifications, next_nid, accounts>>

delete_user_commit(p) ==
    /\ req[p].pc = "delete_user_commit"
    /\ users' = [users EXCEPT ![req[p].caller].is_active = FALSE]
    /\ req' = [req EXCEPT ![p] = Finish(req[p], "ok")]
    /\ UNCHANGED <<business_owners, bags, orders, notifications, next_nid, nreq>>

create_business_owner(p, caller) ==
    /\ Free(p)
    /\ nreq' = nreq + 1
    /\ LET r == Begin("create_business_owner", caller)
           db_user == get_user_by_id(caller)
       IN  req' = [req EXCEPT ![p] =
               IF db_user = 0 THEN Finish(r, "403")
               ELSE IF role(db_user) # "business_owner" THEN Finish(r, "403")
               ELSE [r EXCEPT !.pc = "create_business_owner_commit"]]
    /\ UNCHANGED <<bags, orders, notifications, next_nid, accounts>>

\* owner_id is the primary key of business_owners
create_business_owner_commit(p) ==
    /\ req[p].pc = "create_business_owner_commit"
    /\ \/ /\ get_business_owner(req[p].caller) # {}
          /\ req' = [req EXCEPT ![p] = Finish(req[p], "500_integrity")]
          /\ UNCHANGED business_owners
       \/ /\ get_business_owner(req[p].caller) = {}
          /\ business_owners' = business_owners \cup
                 {BusinessOwner(req[p].caller)}
          /\ req' = [req EXCEPT ![p] = Finish(req[p], "ok")]
    /\ UNCHANGED <<users, bags, orders, notifications, next_nid, nreq>>

delete_business_owner(p, caller) ==
    /\ Free(p)
    /\ nreq' = nreq + 1
    /\ LET r == Begin("delete_business_owner", caller)
       IN  req' = [req EXCEPT ![p] =
               IF role(caller) # "business_owner" THEN Finish(r, "403")
               ELSE IF get_business_owner(caller) = {} THEN Finish(r, "404")
               ELSE [r EXCEPT !.pc = "delete_business_owner_get_user"]]
    /\ UNCHANGED <<bags, orders, notifications, next_nid, accounts>>

delete_business_owner_get_user(p) ==
    /\ req[p].pc = "delete_business_owner_get_user"
    /\ req' = [req EXCEPT ![p].pc = "delete_business_owner_commit"]
    /\ UNCHANGED <<bags, orders, notifications, next_nid, nreq, accounts>>

delete_business_owner_commit(p) ==
    /\ req[p].pc = "delete_business_owner_commit"
    /\ business_owners' =
           {IF b.owner_id = req[p].caller
            THEN [b EXCEPT !.is_verified = FALSE] ELSE b : b \in business_owners}
    /\ users' = IF get_user_by_id(req[p].caller) # 0
                THEN [users EXCEPT ![req[p].caller].is_active = FALSE]
                ELSE users
    /\ req' = [req EXCEPT ![p] = Finish(req[p], "ok")]
    /\ UNCHANGED <<bags, orders, notifications, next_nid, nreq>>

\* the response is sent and the session is closed
Respond(p) ==
    /\ req[p].pc = "done"
    /\ req' = [req EXCEPT ![p] = Idle]
    /\ UNCHANGED <<bags, orders, notifications, next_nid, nreq, accounts>>

(* --------------------------- specification ----------------------------- *)
BagIds == 1..MaxBags
OrderIds == 1..MaxOrders

Next ==
    \E p \in Procs :
        \/ \E caller \in Users, bag \in Payloads :
               create_surprise_bag(p, caller, bag)
        \/ create_surprise_bag_commit(p)
        \/ create_surprise_bag_notify(p)
        \/ \E caller \in Users, bag_id \in BagIds, bag \in Payloads :
               update_surprise_bag(p, caller, bag_id, bag)
        \/ update_surprise_bag_commit(p)
        \/ \E caller \in Users, bag_id \in BagIds :
               delete_surprise_bag(p, caller, bag_id)
        \/ delete_surprise_bag_count(p)
        \/ delete_surprise_bag_commit(p)
        \/ \E caller \in Users, bag_id \in BagIds, total_price \in Prices :
               create_order(p, caller, bag_id, total_price)
        \/ create_order_code(p)
        \/ create_order_commit(p)
        \/ create_order_notify(p)
        \/ \E caller \in Users, order_id \in OrderIds, status \in OrderStatus :
               update_order_status(p, caller, order_id, status)
        \/ update_order_status_commit(p)
        \/ update_order_status_notify(p)
        \/ \E caller \in Users, order_id \in OrderIds :
               delete_order(p, caller, order_id)
        \/ delete_order_get_bag(p)
        \/ delete_order_commit(p)
        \/ delete_order_notify(p)
        \/ Respond(p)

Spec == Init /\ [][Next]_vars

(* ------------- the whole service: every endpoint, one session ---------- *)
Sequential == {"s1"}
NotificationIds == 1..MaxNotifications
Emails == 1..MaxUsers

NextAll ==
    \E p \in Sequential :
        \/ \E email \in Emails, user_role \in UserRole :
               create_user(p, email, user_role)
        \/ create_user_commit(p)
        \/ \E caller \in DOMAIN users : delete_user(p, caller)
        \/ delete_user_commit(p)
        \/ \E caller \in DOMAIN users : create_business_owner(p, caller)
        \/ create_business_owner_commit(p)
        \/ \E caller \in DOMAIN users : delete_business_owner(p, caller)
        \/ delete_business_owner_get_user(p)
        \/ delete_business_owner_commit(p)
        \/ \E caller \in DOMAIN users, bag \in SurpriseBagCreate :
               create_surprise_bag(p, caller, bag)
        \/ create_surprise_bag_commit(p)
        \/ create_surprise_bag_notify(p)
        \/ \E caller \in DOMAIN users, bag_id \in BagIds, bag \in SurpriseBagCreate :
               update_surprise_bag(p, caller, bag_id, bag)
        \/ update_surprise_bag_commit(p)
        \/ \E caller \in DOMAIN users, bag_id \in BagIds :
               delete_surprise_bag(p, caller, bag_id)
        \/ delete_surprise_bag_count(p)
        \/ delete_surprise_bag_commit(p)
        \/ \E caller \in DOMAIN users, bag_id \in BagIds, total_price \in Prices :
               create_order(p, caller, bag_id, total_price)
        \/ create_order_code(p)
        \/ create_order_commit(p)
        \/ create_order_notify(p)
        \/ \E caller \in DOMAIN users, order_id \in OrderIds,
              status \in OrderStatus :
               update_order_status(p, caller, order_id, status)
        \/ update_order_status_commit(p)
        \/ update_order_status_notify(p)
        \/ \E caller \in DOMAIN users, order_id \in OrderIds :
               delete_order(p, caller, order_id)
        \/ delete_order_get_bag(p)
        \/ delete_order_commit(p)
        \/ delete_order_notify(p)
        \/ \E caller \in DOMAIN users, notification_id \in NotificationIds :
               mark_notification_as_read(p, caller, notification_id)
        \/ mark_notification_as_read_commit(p)
        \/ \E caller \in DOMAIN users, notification_id \in NotificationIds :
               delete_notification(p, caller, notification_id)
        \/ delete_notification_commit(p)
        \/ Respond(p)

SpecAll == Init /\ [][NextAll]_vars

(* ------- accounts and listing creation, two concurrent sessions -------- *)
NextAccounts ==
    \E p \in Procs :
        \/ \E email \in Emails, user_role \in UserRole :
               create_user(p, email, user_role)
        \/ create_user_commit(p)
        \/ \E caller \in DOMAIN users : delete_user(p, caller)
        \/ delete_user_commit(p)
        \/ \E caller \in DOMAIN users : create_business_owner(p, caller)
        \/ create_business_owner_commit(p)
        \/ \E caller \in DOMAIN users : delete_business_owner(p, caller)
        \/ delete_business_owner_get_user(p)
        \/ delete_business_owner_commit(p)
        \/ \E caller \in DOMAIN users, bag \in Payloads :
               create_surprise_bag(p, caller, bag)
        \/ create_surprise_bag_commit(p)
        \/ create_surprise_bag_notify(p)
        \/ Respond(p)

SpecAccounts == Init /\ [][NextAccounts]_vars

(* ------------------------------ claims --------------------------------- *)
StoreUnchanged ==
    /\ bags' = bags
    /\ orders' = orders
    /\ notifications' = notifications

\* p starts request op in this step
Starts(p, op) == req[p].pc = "idle" /\ req'[p].op = op

\* C1: every listing satisfies 0 <= quantity_sold <= quantity_available in
\* every reachable state.
C1_QuantityInvariant ==
    \A b \in DOMAIN bags :
        /\ 0 <= bags[b].quantity_sold
        /\ bags[b].quantity_sold <= bags[b].quantity_available

\* C2: of two concurrent placeOrder calls that both found a listing with
\* exactly one unit left, at most one commits its order (no overselling).
C2_NoOversell ==
    \A p, q \in Procs :
        (/\ p # q
         /\ req[p].pc = "create_order_notify"
         /\ req[q].op = "create_order"
         /\ req[q].bag_id = req[p].bag_id
         /\ req[q].quantity_sold = req[p].quantity_sold
         /\ bags[req[p].bag_id].quantity_available - req[p].quantity_sold = 1)
        => req[q].pc # "create_order_notify"

\* C3: no two distinct orders, of any status, carry the same pickup_code,
\* also when placeOrder calls run concurrently.
C3_PickupCodeUnique ==
    \A i, j \in DOMAIN orders :
        i # j => orders[i].pickup_code # orders[j].pickup_code

\* two concurrent placeOrder calls have both committed their orders
C3_Witness ==
    /\ Len(orders) >= 2
    /\ \A p \in Procs : req[p].pc = "create_order_notify"

\* C4: quantity_sold of a listing equals the number of its orders that are
\* not cancelled.
C4_OneUnitPerOrder ==
    \A b \in DOMAIN bags :
        bags[b].quantity_sold =
            Cardinality({i \in DOMAIN orders :
                /\ orders[i].bag_id = b
                /\ orders[i].status # "cancelled"})

\* C5: the commit of a cancelOrder on a pending order lowers the listing's
\* quantity_sold by exactly 1 and sets the order to cancelled, and when the
\* listing was active and sold out before, a placeOrder that follows finds it
\* available (active, quantity_sold < quantity_available).
C5_CancelThenReorder ==
    [][\A p \in Procs :
          (/\ req[p].pc = "delete_order_commit"
           /\ req'[p].pc = "delete_order_notify"
           /\ orders[req[p].order_id].status = "pending")
          => LET o == req[p].order_id
                 b == orders[o].bag_id
             IN  /\ bags'[b].quantity_sold = bags[b].quantity_sold - 1
                 /\ orders'[o].status = "cancelled"
                 /\ (/\ bags[b].is_active
                     /\ bags[b].quantity_sold >= bags[b].quantity_available)
                    => /\ bags'[b].is_active
                       /\ bags'[b].quantity_sold < bags'[b].quantity_available
      ]_vars

\* C6: cancelOrder by the order's customer on an order that is not pending
\* fails with the invalid-state error and changes neither the order, nor the
\* listing, nor the notifications.
C6_CancelNonPendingFails ==
    [][\A p \in Procs, o \in DOMAIN orders :
          (/\ Starts(p, "delete_order")
           /\ req'[p].order_id = o
           /\ req'[p].caller = orders[o].customer_id
           /\ orders[o].status # "pending")
          => /\ req'[p].pc = "done"
             /\ req'[p].result = "400_not_pending"
             /\ StoreUnchanged
      ]_vars

\* a cancelOrder on a confirmed order was rejected
C6_Witness ==
    \E p \in Procs :
        /\ req[p].op = "delete_order"
        /\ req[p].result = "400_not_pending"
        /\ orders[req[p].order_id].status = "confirmed"
        /\ orders[req[p].order_id].customer_id = req[p].caller

\* C7: placeOrder by a customer fails with NotFound when the listing is
\* missing or inactive and with the sold-out error when quantity_sold >=
\* quantity_available; a failed placeOrder creates no order, leaves
\* quantity_sold alone and emits no notification.
C7_PlaceOrderRejects ==
    [][\A p \in Procs :
          (Starts(p, "create_order") /\ req'[p].caller \in Customers)
          => LET b == req'[p].bag_id
                 missing == IF b \in DOMAIN bags
                            THEN ~bags[b].is_active ELSE TRUE
                 sold_out == IF b \in DOMAIN bags
                             THEN bags[b].quantity_sold >=
                                      bags[b].quantity_available
                             ELSE FALSE
             IN  /\ missing => req'[p].result = "404"
                 /\ (~missing /\ sold_out) => req'[p].result = "400_sold_out"
                 /\ (~missing /\ ~sold_out) => req'[p].pc = "create_order_code"
                 /\ StoreUnchanged
      ]_vars

\* one placeOrder was turned down as sold out, another on a deactivated listing
C7_Witness ==
    \E p, q \in Procs :
        /\ req[p].op = "create_order" /\ req[p].result = "400_sold_out"
        /\ req[q].op = "create_order" /\ req[q].result = "404"
        /\ req[q].bag_id \in DOMAIN bags
        /\ ~bags[req[q].bag_id].is_active

\* C8: no reachable state holds an order without its order_confirmation
\* notification to the order's customer.
C8_OrderHasConfirmation ==
    \A o \in DOMAIN orders :
        \E n \in notifications :
            /\ n.type = "order_confirmation"
            /\ n.related_entity_type = "order"
            /\ n.related_entity_id = o
            /\ n.user_id = orders[o].customer_id

\* C9: the pickup-code loop is bounded: no placeOrder call makes MaxRetries
\* retries, it gives up with a conflict error before.
C9_BoundedCodeRetries ==
    \A p \in Procs : req[p].retries < MaxRetries

\* C10: deleteListing by a business owner: NotFound for one who does not own
\* the listing; the owner's call fails with the conflict error, listing left
\* active, when the count finds a pending or confirmed order, and goes on to
\* deactivate when it finds none; nothing else deactivates a listing.
C10_DeleteListingGuard ==
    [][/\ \A p \in Procs :
            (Starts(p, "delete_surprise_bag") /\ req'[p].caller \in BusinessUsers)
            => /\ StoreUnchanged
               /\ LET b == req'[p].bag_id
                      owned == IF b \in DOMAIN bags
                               THEN bags[b].business_id = req'[p].caller
                               ELSE FALSE
                  IN  IF owned
                      THEN req'[p].pc = "delete_surprise_bag_count"
                      ELSE req'[p].result = "404"
       /\ \A p \in Procs :
            (req[p].pc = "delete_surprise_bag_count" /\ req'[p] # req[p])
            => LET b == req[p].bag_id
                   blocked == \E i \in DOMAIN orders :
                                 /\ orders[i].bag_id = b
                                 /\ orders[i].status \in {"pending", "confirmed"}
               IN  /\ StoreUnchanged
                   /\ IF blocked
                      THEN req'[p].result = "400_active_orders"
                      ELSE req'[p].pc = "delete_surprise_bag_commit"
       /\ \A b \in DOMAIN bags :
            (bags[b].is_active /\ ~bags'[b].is_active)
            => \E p \in Procs :
                  /\ req[p].pc = "delete_surprise_bag_commit"
                  /\ req[p].bag_id = b
                  /\ req[p].caller = bags[b].business_id
                  /\ req'[p].result = "ok"
      ]_vars

\* the owner's deleteListing was refused while an order was confirmed
C10_Witness ==
    \E p \in Procs :
        /\ req[p].op = "delete_surprise_bag"
        /\ req[p].result = "400_active_orders"
        /\ bags[req[p].bag_id].is_active
        /\ \E i \in DOMAIN orders :
              /\ orders[i].bag_id = req[p].bag_id
              /\ orders[i].status = "confirmed"

\* C11: update_order_status and delete_order (cancelOrder) called for an
\* existing order whose customer_id is not the caller answer 404 and
\* leave every order, quantity_sold and the notifications as they were;
\* an order's status changes only in a request of its own customer.
C11_NonOwnerRejected ==
    [][/\ \A p \in Procs :
            /\ Starts(p, "update_order_status") \/ Starts(p, "delete_order")
            /\ req'[p].op = "delete_order" => req'[p].caller \in Customers
            /\ req'[p].order_id \in DOMAIN orders
            /\ orders[req'[p].order_id].customer_id # req'[p].caller
            => /\ req'[p].pc = "done"
               /\ req'[p].result = "404"
               /\ StoreUnchanged
       /\ \A o \in DOMAIN orders :
            orders'[o].status # orders[o].status
            => \E p \in Procs :
                  /\ req[p].pc \in {"update_order_status_commit",
                                    "delete_order_commit"}
                  /\ req[p].order_id = o
                  /\ req[p].caller = orders[o].customer_id
      ]_vars

\* both operations have been refused for an order of another customer
C11_Witness ==
    \E p \in Procs, q \in Procs :
        /\ req[p].pc = "done" /\ req[q].pc = "done"
        /\ req[p].op = "update_order_status" /\ req[q].op = "delete_order"
        /\ req[p].result = "404" /\ req[q].result = "404"
        /\ req[p].order_id \in DOMAIN orders
        /\ req[q].order_id \in DOMAIN orders
        /\ orders[req[p].order_id].customer_id # req[p].caller
        /\ orders[req[q].order_id].customer_id # req[q].caller
        /\ req[q].caller \in Customers

\* C12: mark_notification_as_read and delete_notification called for an
\* existing notification whose user_id is not the caller answer 404 and
\* leave the notifications as they were; a notification is modified or
\* removed only in a request of its own user.
C12_NotificationOwnership ==
    [][/\ \A p \in Procs :
            /\ \/ Starts(p, "mark_notification_as_read")
               \/ Starts(p, "delete_notification")
            /\ \E n \in notifications :
                  /\ n.notification_id = req'[p].notification_id
                  /\ n.user_id # req'[p].caller
            => /\ req'[p].pc = "done"
               /\ req'[p].result = "404"
               /\ notifications' = notifications
       /\ \A n \in notifications :
            n \notin notifications'
            => \E p \in Procs :
                  /\ req[p].pc \in {"mark_notification_as_read_commit",
                                    "delete_notification_commit"}
                  /\ req[p].notification_id = n.notification_id
                  /\ req[p].caller = n.user_id
      ]_vars

\* a request for the notification of another user has been refused
C12_Witness ==
    \E p \in Procs, n \in notifications :
        /\ req[p].pc = "done"
        /\ req[p].op \in {"mark_notification_as_read", "delete_notification"}
        /\ req[p].result = "404"
        /\ n.notification_id = req[p].notification_id
        /\ n.user_id # req[p].caller
        /\ ~n.is_read

\* C13: create_surprise_bag by a business with a payload whose
\* discount_price >= original_price or pickup_end <= pickup_start answers
\* 400 and creates no listing and no notification.
C13_CreateListingValidation ==
    [][\A p \in Procs, caller \in DOMAIN users, bag \in SurpriseBagCreate :
          /\ create_surprise_bag(p, caller, bag)
          /\ users[caller].role = "business_owner"
          /\ \E b \in business_owners : b.owner_id = caller
          /\ \/ bag.discount_price >= bag.original_price
             \/ bag.pickup_end <= bag.pickup_start
          => /\ req'[p].pc = "done"
             /\ req'[p].result = "400_validation"
             /\ StoreUnchanged
      ]_vars

\* a payload has been refused and nothing is listed
C13_Witness ==
    \E p \in Procs :
        /\ req[p].pc = "done"
        /\ req[p].op = "create_surprise_bag"
        /\ req[p].result = "400_validation"
        /\ Len(bags) = 0
        /\ notifications = {}

\* C14: every stored listing has discount_price < original_price and
\* pickup_end > pickup_start, after update_surprise_bag as well.
C14_StoredListingValid ==
    \A b \in DOMAIN bags :
        /\ bags[b].discount_price < bags[b].original_price
        /\ bags[b].pickup_end > bags[b].pickup_start

\* C15: a successful update_order_status or delete_order adds exactly one
\* order_update notification, addressed to the order's customer and
\* referencing the order; no other step of these operations, and no
\* failed call, adds or removes a notification.
C15_OneOrderUpdateNotification ==
    [][\A p \in Procs :
          /\ req[p].pc \in {"update_order_status_notify",
                            "delete_order_notify"}
             /\ req'[p] # req[p]
             => /\ req'[p].pc = "done"
                /\ req'[p].result = "ok"
                /\ \E n \in notifications' \ notifications :
                      /\ notifications' = notifications \cup {n}
                      /\ n.type = "order_update"
                      /\ n.user_id = orders[req[p].order_id].customer_id
                      /\ n.related_entity_type = "order"
                      /\ n.related_entity_id = req[p].order_id
          /\ req'[p].op \in {"update_order_status", "delete_order"}
             /\ req'[p] # req[p]
             /\ req[p].pc \notin {"update_order_status_notify",
                                  "delete_order_notify"}
             => /\ notifications' = notifications
                /\ req'[p].pc = "done" => req'[p].result # "ok"
      ]_vars

\* an update and a cancellation have both succeeded and been announced
C15_Witness ==
    \E p \in Procs, q \in Procs :
        /\ req[p].pc = "done" /\ req[q].pc = "done"
        /\ req[p].op = "update_order_status" /\ req[q].op = "delete_order"
        /\ req[p].result = "ok" /\ req[q].result = "ok"
        /\ Cardinality({n \in notifications : n.type = "order_update"}) = 2

\* C16: a successful create_surprise_bag adds exactly one new_bag
\* notification for every user whose role is customer when the
\* notifications are written, each referencing the new listing, and none
\* for a business_owner account; no other step of the operation adds one.
C16_NewBagFanOut ==
    [][\A p \in Procs :
          /\ req[p].pc = "create_surprise_bag_notify" /\ req'[p] # req[p]
             => /\ req'[p].pc = "done"
                /\ req'[p].result = "ok"
                /\ notifications \subseteq notifications'
                /\ \A n \in notifications' \ notifications :
                      /\ n.type = "new_bag"
                      /\ n.related_entity_type = "bag"
                      /\ n.related_entity_id = req[p].bag_id
                      /\ n.user_id \in DOMAIN users
                /\ \A u \in DOMAIN users :
                      Cardinality({n \in notifications' \ notifications :
                                      n.user_id = u})
                      = IF users[u].role = "customer" THEN 1 ELSE 0
          /\ req'[p].op = "create_surprise_bag"
             /\ req'[p] # req[p]
             /\ req[p].pc # "create_surprise_bag_notify"
             => /\ notifications' = notifications
                /\ req'[p].pc = "done" => req'[p].result # "ok"
      ]_vars

\* a listing was created after a customer had registered: the registered
\* customer is notified, the business accounts are not
C16_Witness ==
    \E p \in Procs :
        /\ req[p].pc = "done"
        /\ req[p].op = "create_surprise_bag"
        /\ req[p].result = "ok"
        /\ Len(users) = MaxUsers
        /\ users[MaxUsers].role = "customer"
        /\ \E n \in notifications :
              n.user_id = MaxUsers /\ n.related_entity_id = req[p].bag_id
        /\ \A n \in notifications : users[n.user_id].role = "customer"
        /\ Cardinality(notifications) = 3

\* C17: a new listing starts with quantity_sold = 0, and a listing's
\* quantity_sold changes only in the commit of create_order (+1) or of
\* delete_order (-1) on that listing; every other operation leaves it
\* unchanged.
C17_QuantitySoldWriters ==
    [][\A b \in DOMAIN bags' :
          IF b \notin DOMAIN bags THEN bags'[b].quantity_sold = 0
          ELSE bags'[b].quantity_sold # bags[b].quantity_sold
               => \E p \in Procs :
                     /\ req[p].bag_id = b
                     /\ \/ /\ req[p].pc = "create_order_commit"
                           /\ bags'[b].quantity_sold =
                                  bags[b].quantity_sold + 1
                        \/ /\ req[p].pc = "delete_order_commit"
                           /\ bags'[b].quantity_sold =
                                  bags[b].quantity_sold - 1
      ]_vars

\* a listing with one unit sold has been updated by its owner
C17_Witness ==
    \E p \in Procs :
        /\ req[p].pc = "done"
        /\ req[p].op = "update_surprise_bag"
        /\ req[p].result = "ok"
        /\ bags[req[p].bag_id].quantity_sold = 1

\* C18: an order's status changes only from pending, and only to
\* confirmed, cancelled or completed; cancelled and completed are final.
C18_StatusMachine ==
    [][\A o \in DOMAIN orders :
          orders'[o].status # orders[o].status
          => /\ orders[o].status = "pending"
             /\ orders'[o].status \in {"confirmed", "cancelled", "completed"}
      ]_vars

\* C19: no deactivated listing has an order in status pending or
\* confirmed.
C19_NoActiveOrderOnInactiveListing ==
    \A o \in DOMAIN orders :
        orders[o].status \in {"pending", "confirmed"}
        => bags[orders[o].bag_id].is_active

\* C20: of two concurrent delete_order (cancelOrder) calls by the owner on
\* the same pending order, at most one commits the cancellation.
C20_ConcurrentCancelOnce ==
    \A p, q \in Procs :
        (/\ p # q
         /\ req[p].pc = "delete_order_notify"
         /\ req[q].op = "delete_order"
         /\ req[q].order_id = req[p].order_id)
        => req[q].pc # "delete_order_notify"

\* C21: a listing whose is_active is FALSE never becomes active again,
\* whatever operation runs (update_surprise_bag by its owner included),
\* and a create_order that starts while the listing is deactivated is
\* refused without creating an order or changing the store.
C21_DeactivationPermanent ==
    [][/\ \A b \in DOMAIN bags :
            ~bags[b].is_active
            => b \in DOMAIN bags' /\ ~bags'[b].is_active
       /\ \A p \in Procs :
            /\ Starts(p, "create_order")
            /\ req'[p].bag_id \in DOMAIN bags
            /\ ~bags[req'[p].bag_id].is_active
            => /\ req'[p].pc = "done"
               /\ req'[p].result \in {"403", "404"}
               /\ req'[p].caller \in Customers => req'[p].result = "404"
               /\ StoreUnchanged
      ]_vars

\* the owner has updated a deactivated listing and a customer's order on
\* it has been refused
C21_Witness ==
    \E p \in Procs, q \in Procs :
        /\ req[p].pc = "done" /\ req[q].pc = "done"
        /\ req[p].op = "create_order"
        /\ req[p].caller \in Customers
        /\ req[p].result = "404"
        /\ req[p].bag_id \in DOMAIN bags
        /\ ~bags[req[p].bag_id].is_active
        /\ req[q].op = "update_surprise_bag"
        /\ req[q].result = "ok"
        /\ req[q].bag_id = req[p].bag_id
        /\ Len(orders) = 0

\* C22: an order, once created, stays in the store, and every step leaves
\* its order_id, customer_id, bag_id, total_price and pickup_code as they
\* were: status is the only stored column of an order that changes.
C22_OrderIdentityImmutable ==
    [][\A o \in DOMAIN orders :
          /\ o \in DOMAIN orders'
          /\ orders'[o].order_id = orders[o].order_id
          /\ orders'[o].customer_id = orders[o].customer_id
          /\ orders'[o].bag_id = orders[o].bag_id
          /\ orders'[o].total_price = orders[o].total_price
          /\ orders'[o].pickup_code = orders[o].pickup_code
          /\ DOMAIN orders'[o] = DOMAIN orders[o]
      ]_vars

\* an order has been cancelled and is still stored with its fields
C22_Witness ==
    \E p \in Procs :
        /\ req[p].pc = "done"
        /\ req[p].op = "delete_order"
        /\ req[p].result = "ok"
        /\ req[p].order_id \in DOMAIN orders
        /\ orders[req[p].order_id].status = "cancelled"
        /\ orders[req[p].order_id].order_id = req[p].order_id
        /\ orders[req[p].order_id].customer_id = req[p].caller
        /\ orders[req[p].order_id].pickup_code \in Codes

====
